---- MODULE Spec2Model ----
(***************************************************************************)
(* One invocation of reporter.py: the command dispatcher, auth(), the      *)
(* episode and media-id resolvers and the three AniList operations.        *)
(*                                                                         *)
(* The file system (token file, sidecar file), the command line and the    *)
(* outcome of guessit() on the filename are fixed when the process starts. *)
(* The clock, the time zone, the decoded token payload, the HTTP exchange  *)
(* and the web browser are read when the code calls them.                  *)
(* Times are in hours since the epoch.                                     *)
(***************************************************************************)
EXTENDS Integers, Sequences, FiniteSets

VARIABLES
    args,         \* argparse namespace: cmd, filename (base name), guess, score
    tokenFile,    \* <SCRIPT_DIR>/.anilist.jwt
    sidecar,      \* <dirname(filename)>/.anilist.json
    pc,           \* position in __main__
    auth_result,  \* value auth() returned to its caller
    second_part,  \* outcome of json.loads(base64.b64decode(parts[1]))
    clock,        \* what datetime.today()/fromtimestamp() saw
    response,     \* HTTP response of requests.post
    result,       \* __main__'s result
    stdout,       \* values written by json.dump(..., sys.stdout)
    posts,        \* requests sent with requests.post
    tabs,         \* URLs handed to webbrowser.open_new_tab
    calls,        \* order in which the invocation called its collaborators
    raised        \* exception that left __main__ unhandled ("" if none)

vars == <<args, tokenFile, sidecar, pc, auth_result, second_part, clock,
          response, result, stdout, posts, tabs, calls, raised>>

----------------------------------------------------------------------------
(* Bounds *)

MaxTokenLen == 5
MaxNameLen == 3
ExpSpread == 1

(* timedelta(weeks=2), in hours *)
TwoWeeks == 336

----------------------------------------------------------------------------
(* Values *)

OK == "ok"
ERROR == "error"
TOKEN_UPDATE_NEEDED == "tokenupdate"
Status == {OK, ERROR, TOKEN_UPDATE_NEEDED}

Verbs == {"auth", "report", "search", "guessit", "score", "browse"}

(* A message: a literal text, with the values an f-string interpolates. *)
Msg(text) == [text |-> text, code |-> 0, body |-> "", token |-> <<>>]
None == Msg("None")
TokenMsg(token) == [text |-> "<token>", code |-> 0, body |-> "", token |-> token]
ExcMsg(text, exc) == [text |-> text, code |-> 0, body |-> exc, token |-> <<>>]
HttpMsg(code, body) ==
    [text |-> "Got unexpected response from anilist", code |-> code,
     body |-> body, token |-> <<>>]

Result(status, message) ==
    [type |-> "Result", status |-> status, message |-> message, extra |-> "none"]
SearchResult(status, message, page) ==
    [type |-> "SearchResult", status |-> status, message |-> message, extra |-> page]
GuessitResult(status, message, matches) ==
    [type |-> "GuessitResult", status |-> status, message |-> message, extra |-> matches]

Unset == [type |-> "unset", status |-> "unset", message |-> None, extra |-> "none"]

OAuthURL ==
    [base |-> "https://anilist.co/api/v2/oauth/authorize?client_id=25356&response_type=token",
     id |-> 0]
AnimeURL(id) == [base |-> "https://anilist.co/anime/", id |-> id]

----------------------------------------------------------------------------
(* Inputs *)

RECURSIVE SeqsUpTo(_, _)
SeqsUpTo(S, n) ==
    IF n = 0 THEN {<<>>}
    ELSE LET shorter == SeqsUpTo(S, n - 1)
         IN  shorter \cup {Append(s, c) : s \in {t \in shorter : Len(t) = n - 1}, c \in S}

(* "a" stands for any character other than the separator *)
TokenChars == {".", "a"}
TokenTexts == SeqsUpTo(TokenChars, MaxTokenLen)
TokenFiles ==
    {[exists |-> FALSE, readable |-> FALSE, text |-> <<>>],
     [exists |-> TRUE, readable |-> FALSE, text |-> <<>>]}
    \cup {[exists |-> TRUE, readable |-> TRUE, text |-> t] : t \in TokenTexts}

Digits == {"1"}
NameChars == Digits \cup {"x"}
BaseNames == SeqsUpTo(NameChars, MaxNameLen)

MediaIds == {101}
Sidecars ==
    {[state |-> s, media_id |-> 0] : s \in {"absent", "invalid", "nokey"}}
    \cup {[state |-> "ok", media_id |-> m] : m \in MediaIds}

(* guessit(filename): no episode field, one episode, or a list of episodes *)
Guesses ==
    {[kind |-> "none", episode |-> 0], [kind |-> "int", episode |-> 7],
     [kind |-> "list", episode |-> 0]}

Scores == {0, 10}

(* json.loads(base64.b64decode(parts[1])) *)
PayloadKinds == {"badb64", "notjson", "nonobject", "noexp", "exp"}
NoPayload == [kind |-> "unread", exp |-> 0]
(* what a segment can decode to: the empty segment decodes to b'', which is not JSON *)
DecodeOutcomes(segment) == IF segment = <<>> THEN {"notjson"} ELSE PayloadKinds
NowValues == {TwoWeeks}
ExpValues(now) == {0} \cup ((now + TwoWeeks - ExpSpread) .. (now + TwoWeeks + ExpSpread))
(* the local UTC offset changes by one hour at SwitchAt, or never *)
DstRules == {"none", "forward", "back"}
SwitchAt == TwoWeeks + TwoWeeks \div 2
Clocks == [now : NowValues, dst : DstRules]
NoClock == [now |-> 0, dst |-> "none"]

StatusCodes == {200, 204, 401, 500}
Bodies == {"{data}", "<html>"}
Responses == [status_code : StatusCodes, text : Bodies]
NoResponse == [status_code |-> 0, text |-> ""]
NoRequest == [query |-> "none", bearer |-> None, mediaId |-> 0, value |-> 0]

----------------------------------------------------------------------------
(* Library functions the code calls *)

(* str.split('.') *)
RECURSIVE split(_)
split(s) ==
    IF \A i \in 1..Len(s) : s[i] # "."
    THEN <<s>>
    ELSE LET i == CHOOSE k \in 1..Len(s) :
                      s[k] = "." /\ \A j \in 1..(k - 1) : s[j] # "."
         IN  <<SubSeq(s, 1, i - 1)>> \o split(SubSeq(s, i + 1, Len(s)))

(* Variant: the pattern \d, which a single digit matches. *)
re_search_1(s) ==
    LET hits == {i \in 1..Len(s) : s[i] \in Digits}
    IN  IF hits = {} THEN <<>>
        ELSE LET i == CHOOSE k \in hits : \A j \in hits : k <= j
             IN  SubSeq(s, i, i)

(* re.search(r'\d{2}', s): group(0) of the first match, <<>> if there is none *)
re_search(s) ==
    LET hits == {i \in 1..(Len(s) - 1) : s[i] \in Digits /\ s[i + 1] \in Digits}
    IN  IF hits = {} THEN <<>>
        ELSE LET i == CHOOSE k \in hits : \A j \in hits : k <= j
             IN  SubSeq(s, i, i + 1)

DigitValue(c) == IF c = "1" THEN 1 ELSE 0

(* int() of a string of digits *)
RECURSIVE int(_)
int(s) == IF s = <<>> THEN 0 ELSE 10 * int(SubSeq(s, 1, Len(s) - 1)) + DigitValue(s[Len(s)])

(* UTC offset of the local time zone at instant t *)
utcoffset(t, dst) ==
    IF t < SwitchAt THEN 0
    ELSE IF dst = "forward" THEN 1
    ELSE IF dst = "back" THEN -1
    ELSE 0

(* datetime.fromtimestamp(t): naive local time *)
fromtimestamp(t, dst) == t + utcoffset(t, dst)

(* datetime.today(): naive local time *)
today(c) == fromtimestamp(c.now, c.dst)

----------------------------------------------------------------------------
(* Functions of reporter.py.  Each returns [raised, ret, ...]: the          *)
(* exception that escaped it ("" if none) and the value it returned.       *)

Return(r) == [raised |-> "", ret |-> r, decoded |-> FALSE]
Raise(e) == [raised |-> e, ret |-> Unset, decoded |-> FALSE]

(* Variant: the two except clauses carry each other's message. *)
get_media_id_swapped(sc) ==
    IF sc.state = "absent" THEN [raised |-> "", isResult |-> TRUE, media_id |-> 0,
                                 ret |-> Result(ERROR, Msg("Media file does not have media_id"))]
    ELSE IF sc.state = "nokey" THEN [raised |-> "", isResult |-> TRUE, media_id |-> 0,
                                 ret |-> Result(ERROR, Msg("Could not found mediaId"))]
    ELSE IF sc.state = "invalid" THEN [raised |-> "JSONDecodeError", isResult |-> FALSE,
                                 media_id |-> 0, ret |-> Unset]
    ELSE [raised |-> "", isResult |-> FALSE, media_id |-> sc.media_id, ret |-> Unset]

get_media_id(sc) ==
    IF sc.state = "absent" THEN [raised |-> "", isResult |-> TRUE, media_id |-> 0,
                                 ret |-> Result(ERROR, Msg("Could not found mediaId"))]
    ELSE IF sc.state = "nokey" THEN [raised |-> "", isResult |-> TRUE, media_id |-> 0,
                                 ret |-> Result(ERROR, Msg("Media file does not have media_id"))]
    ELSE IF sc.state = "invalid" THEN [raised |-> "JSONDecodeError", isResult |-> FALSE,
                                 media_id |-> 0, ret |-> Unset]
    ELSE [raised |-> "", isResult |-> FALSE, media_id |-> sc.media_id, ret |-> Unset]

(* Variant: tokens with more than three segments pass the check. *)
wrong_parts_lt(parts) == Len(parts) < 3

(* line 89 *)
wrong_parts(parts) == Len(parts) # 3

auth(file, payload, c) ==
    IF ~file.exists
    THEN Return(Result(TOKEN_UPDATE_NEEDED,
            Msg("Access token has not been found, it is needed in order to track progress.")))
    ELSE IF ~file.readable
    THEN Return(Result(ERROR, ExcMsg("Error on token read", "OSError")))
    ELSE LET token == file.text
             parts == split(token)
         IN  IF wrong_parts(parts)
             THEN Return(Result(TOKEN_UPDATE_NEEDED, Msg("Wrong number of parts")))
             ELSE IF payload.kind \in {"badb64", "notjson"}
             THEN [Return(Result(ERROR, ExcMsg("Error on token read", payload.kind)))
                      EXCEPT !.decoded = TRUE]
             ELSE IF payload.kind = "noexp"
             THEN [Raise("KeyError") EXCEPT !.decoded = TRUE]
             ELSE IF payload.kind = "nonobject"
             THEN [Raise("TypeError") EXCEPT !.decoded = TRUE]
             ELSE LET expiration_date == fromtimestamp(payload.exp, c.dst)
                  IN  IF expiration_date - today(c) < TwoWeeks
                      THEN [Return(Result(TOKEN_UPDATE_NEEDED,
                               Msg("Access token has expired or expiring, please update it.")))
                               EXCEPT !.decoded = TRUE]
                      ELSE [Return(Result(OK, TokenMsg(token))) EXCEPT !.decoded = TRUE]

(* What a handler did up to its return, its exception or its HTTP request. *)
Returned(r, called) ==
    [kind |-> "return", ret |-> r, exc |-> "", request |-> NoRequest, called |-> called]
Crashed(e, called) ==
    [kind |-> "raise", ret |-> Unset, exc |-> e, request |-> NoRequest, called |-> called]
Sent(q, called) ==
    [kind |-> "post", ret |-> Unset, exc |-> "", request |-> q, called |-> Append(called, "post")]

(* Variant: only an ERROR from auth() stops the handler. *)
auth_failed_err(ar) == ar.status = ERROR

(* lines 110, 138, 161 *)
auth_failed(ar) == ar.status # OK

(* Variant: every status below 400 counts as success. *)
http_error_4xx(resp) == resp.status_code >= 400

(* lines 131, 150, 177 *)
http_error(resp) == resp.status_code # 200

(* Variant: the media id is looked up before the episode is resolved. *)
report_media_first(ar, a, sc) ==
    IF auth_failed(ar) THEN Returned(ar, <<>>)
    ELSE LET match == re_search(a.filename)
             media == get_media_id(sc)
         IN  IF media.raised # ""
             THEN Crashed(media.raised, <<"get_media_id">>)
             ELSE IF media.isResult
             THEN Returned(media.ret, <<"get_media_id">>)
             ELSE IF a.guess.kind = "none" /\ match = <<>>
             THEN Returned(Result(ERROR, Msg("Could not determine episode")),
                           <<"get_media_id", "guessit">>)
             ELSE IF a.guess.kind = "list"
             THEN Crashed("TypeError", <<"get_media_id", "guessit">>)
             ELSE Sent([query |-> "REPORT_PROGRESS_MUTATION", bearer |-> ar.message,
                        mediaId |-> media.media_id,
                        value |-> IF a.guess.kind = "int" THEN a.guess.episode
                                  ELSE int(match)],
                       <<"get_media_id", "guessit">>)

(* report(), lines 110-130 *)
report(ar, a, sc) ==
    IF auth_failed(ar) THEN Returned(ar, <<>>)
    ELSE LET match == re_search(a.filename)
             media == get_media_id(sc)
         IN  IF a.guess.kind = "none" /\ match = <<>>
             THEN Returned(Result(ERROR, Msg("Could not determine episode")), <<"guessit">>)
             ELSE IF media.raised # ""
             THEN Crashed(media.raised, <<"guessit", "get_media_id">>)
             ELSE IF media.isResult
             THEN Returned(media.ret, <<"guessit", "get_media_id">>)
             ELSE IF a.guess.kind = "list"
             THEN Crashed("TypeError", <<"guessit", "get_media_id">>)
             ELSE Sent([query |-> "REPORT_PROGRESS_MUTATION", bearer |-> ar.message,
                        mediaId |-> media.media_id,
                        value |-> IF a.guess.kind = "int" THEN a.guess.episode
                                  ELSE int(match)],
                       <<"guessit", "get_media_id">>)

(* search(), lines 137-149 *)
search(ar, a) ==
    IF auth_failed(ar) THEN Returned(ar, <<>>)
    ELSE Sent([query |-> "ANIME_SEARCH_QUERY", bearer |-> ar.message,
               mediaId |-> 0, value |-> 0], <<>>)

(* set_score(), lines 160-176 *)
set_score(ar, a, sc) ==
    IF auth_failed(ar) THEN Returned(ar, <<>>)
    ELSE LET media == get_media_id(sc)
         IN  IF media.raised # "" THEN Crashed(media.raised, <<"get_media_id">>)
             ELSE IF media.isResult THEN Returned(media.ret, <<"get_media_id">>)
             ELSE Sent([query |-> "SET_SCORE_MUTATION", bearer |-> ar.message,
                        mediaId |-> media.media_id, value |-> a.score],
                       <<"get_media_id">>)

(* The code after requests.post returned, in report(), search(), set_score() *)
on_response(cmd, resp) ==
    IF http_error(resp)
    THEN Returned(Result(ERROR, HttpMsg(resp.status_code, resp.text)), <<>>)
    ELSE IF cmd = "search"
    THEN IF resp.text = "{data}"
         THEN Returned(SearchResult(OK, None, "media"), <<>>)
         ELSE Crashed("JSONDecodeError", <<>>)
    ELSE Returned(Result(OK, None), <<>>)

(* browse() *)
browse(sc) ==
    LET media == get_media_id(sc)
    IN  IF media.raised # "" THEN Crashed(media.raised, <<"get_media_id">>)
        ELSE IF media.isResult THEN Returned(media.ret, <<"get_media_id">>)
        ELSE Returned(Result(OK, None), <<"get_media_id", "open_new_tab">>)

(* guessit_cmd() *)
guessit_cmd(a) == Returned(GuessitResult(OK, None, a.guess), <<"guessit">>)

(* Variant: the verb is not tested. *)
opens_oauth_any(r, cmd) == r.status = TOKEN_UPDATE_NEEDED

(* __main__, line 224 *)
opens_oauth(r, cmd) == r.status = TOKEN_UPDATE_NEEDED /\ cmd = "auth"

----------------------------------------------------------------------------
Init ==
    /\ tokenFile \in TokenFiles
    /\ \/ /\ args \in {[cmd |-> c, filename |-> <<>>, guess |-> [kind |-> "none", episode |-> 0],
                        score |-> 0] : c \in {"auth", "search"}}
          /\ sidecar \in {[state |-> "absent", media_id |-> 0]}
       \/ /\ args \in {[cmd |-> "report", filename |-> f, guess |-> g, score |-> 0] :
                        f \in BaseNames, g \in Guesses}
          /\ sidecar \in Sidecars
       \/ /\ args \in {[cmd |-> "guessit", filename |-> f, guess |-> g, score |-> 0] :
                        f \in BaseNames, g \in Guesses}
          /\ sidecar \in {[state |-> "absent", media_id |-> 0]}
       \/ /\ args \in {[cmd |-> "score", filename |-> <<"x">>,
                        guess |-> [kind |-> "none", episode |-> 0], score |-> s] : s \in Scores}
          /\ sidecar \in Sidecars
       \/ /\ args \in {[cmd |-> "browse", filename |-> <<"x">>,
                        guess |-> [kind |-> "none", episode |-> 0], score |-> 0]}
          /\ sidecar \in Sidecars
    /\ pc = "start"
    /\ auth_result = Unset
    /\ second_part = NoPayload
    /\ clock = NoClock
    /\ response = NoResponse
    /\ result = Result(ERROR, None)
    /\ stdout = <<>>
    /\ posts = <<>>
    /\ tabs = <<>>
    /\ calls = <<>>
    /\ raised = ""

----------------------------------------------------------------------------
(* Steps of one invocation *)

(* auth() called by __main__, report(), search() or set_score() *)
CallAuth ==
    /\ pc = "start"
    /\ args.cmd \in {"auth", "report", "search", "score"}
    /\ LET decodes == tokenFile.exists /\ tokenFile.readable
                       /\ Len(split(tokenFile.text)) = 3
       IN
       \E k \in (IF decodes THEN DecodeOutcomes(split(tokenFile.text)[2]) ELSE {"unread"}) :
       \E c \in (IF k = "exp" THEN Clocks ELSE {NoClock}) :
       \E e \in (IF k = "exp" THEN ExpValues(c.now) ELSE {0}) :
         LET p == [kind |-> k, exp |-> e]
             out == auth(tokenFile, p, c)
         IN  /\ second_part' = p
             /\ clock' = c
             /\ auth_result' = out.ret
             /\ raised' = out.raised
             /\ calls' = calls \o <<"auth">>
                          \o (IF out.decoded THEN <<"b64decode">> ELSE <<>>)
             /\ pc' = IF out.raised # "" THEN "crashed" ELSE "authed"
    /\ UNCHANGED <<args, tokenFile, sidecar, response, result, stdout, posts, tabs>>

(* Run a handler's code up to its return, its exception or its request. *)
Step(out) ==
    /\ calls' = calls \o out.called
    /\ raised' = out.exc
    /\ result' = IF out.kind = "return" THEN out.ret ELSE result
    /\ posts' = IF out.kind = "post" THEN Append(posts, out.request) ELSE posts
    /\ pc' = CASE out.kind = "return" -> "epilogue"
               [] out.kind = "raise" -> "crashed"
               [] out.kind = "post" -> "awaiting"

(* case 'auth': result = auth() *)
AuthCmd ==
    /\ pc = "authed" /\ args.cmd = "auth"
    /\ Step(Returned(auth_result, <<>>))
    /\ UNCHANGED <<args, tokenFile, sidecar, auth_result, second_part, clock, response, tabs,
                   stdout>>

Report ==
    /\ pc = "authed" /\ args.cmd = "report"
    /\ Step(report(auth_result, args, sidecar))
    /\ UNCHANGED <<args, tokenFile, sidecar, auth_result, second_part, clock, response, tabs,
                   stdout>>

Search ==
    /\ pc = "authed" /\ args.cmd = "search"
    /\ Step(search(auth_result, args))
    /\ UNCHANGED <<args, tokenFile, sidecar, auth_result, second_part, clock, response, tabs,
                   stdout>>

SetScore ==
    /\ pc = "authed" /\ args.cmd = "score"
    /\ Step(set_score(auth_result, args, sidecar))
    /\ UNCHANGED <<args, tokenFile, sidecar, auth_result, second_part, clock, response, tabs,
                   stdout>>

(* requests.post fails in transport: the exception is not caught *)
TransportFailure ==
    /\ pc = "awaiting"
    /\ Step(Crashed("ConnectionError", <<>>))
    /\ UNCHANGED <<args, tokenFile, sidecar, auth_result, second_part, clock, response, tabs,
                   stdout>>

(* requests.post returns a response *)
Respond ==
    /\ pc = "awaiting"
    /\ \E resp \in Responses :
          /\ response' = resp
          /\ Step(on_response(args.cmd, resp))
    /\ UNCHANGED <<args, tokenFile, sidecar, auth_result, second_part, clock, tabs, stdout>>

GuessitCmd ==
    /\ pc = "start" /\ args.cmd = "guessit"
    /\ Step(guessit_cmd(args))
    /\ UNCHANGED <<args, tokenFile, sidecar, auth_result, second_part, clock, response, tabs,
                   stdout>>

Browse ==
    /\ pc = "start" /\ args.cmd = "browse"
    /\ LET out == browse(sidecar)
       IN  /\ Step(out)
           /\ tabs' = IF out.kind = "return" /\ out.ret.status = OK
                      THEN Append(tabs, AnimeURL(sidecar.media_id)) ELSE tabs
    /\ UNCHANGED <<args, tokenFile, sidecar, auth_result, second_part, clock, response,
                   stdout>>

(* lines 224-225 *)
Epilogue ==
    /\ pc = "epilogue"
    /\ IF opens_oauth(result, args.cmd)
       THEN /\ calls' = Append(calls, "open_new_tab")
            /\ tabs' = Append(tabs, OAuthURL)
       ELSE UNCHANGED <<calls, tabs>>
    /\ pc' = "dump"
    /\ UNCHANGED <<args, tokenFile, sidecar, auth_result, second_part, clock, response, result,
                   stdout, posts, raised>>

(* line 226: json.dump(asdict(result), sys.stdout) *)
Dump ==
    /\ pc = "dump"
    /\ stdout' = Append(stdout, result)
    /\ pc' = "done"
    /\ UNCHANGED <<args, tokenFile, sidecar, auth_result, second_part, clock, response, result,
                   posts, tabs, calls, raised>>

Next ==
    \/ CallAuth
    \/ AuthCmd
    \/ Report
    \/ Search
    \/ SetScore
    \/ TransportFailure
    \/ Respond
    \/ GuessitCmd
    \/ Browse
    \/ Epilogue
    \/ Dump

Spec == Init /\ [][Next]_vars

Terminated == pc \in {"done", "crashed"}

----------------------------------------------------------------------------
(* Properties *)

(* the handler returned to __main__ *)
HandlerReturned == pc \in {"epilogue", "dump", "done"}

(* auth() returned to its caller *)
AuthReturned == auth_result # Unset

Remote == {"report", "search", "score"}

DotCount(text) == Cardinality({i \in 1..Len(text) : text[i] = "."})
HasTwoDigitRun(s) == \E i \in 1..(Len(s) - 1) : s[i] \in Digits /\ s[i + 1] \in Digits
EpisodeKnown == args.guess.kind # "none" \/ HasTwoDigitRun(args.filename)

NotFoundResult == Result(ERROR, Msg("Could not found mediaId"))
NoEpisodeResult == Result(ERROR, Msg("Could not determine episode"))

(* C1: every invocation, whatever the verb, the files and the remote     *)
(* service do, ends having written exactly one Result to standard output. *)
C1_ExactlyOneResult ==
    Terminated =>
        /\ Len(stdout) = 1
        /\ stdout[1].status \in Status

(* C2: for a token whose payload carries exp, auth() returns              *)
(* TOKEN_UPDATE_NEEDED when exp - now is under two weeks and otherwise OK *)
(* with the raw token as message.                                         *)
C2_ExpiryThreshold ==
    (second_part.kind = "exp" /\ pc # "start") =>
        /\ raised = ""
        /\ IF second_part.exp - clock.now < TwoWeeks
           THEN auth_result.status = TOKEN_UPDATE_NEEDED
           ELSE auth_result = Result(OK, TokenMsg(tokenFile.text))

(* C3: auth() returns TOKEN_UPDATE_NEEDED when the token file is absent,  *)
(* and TOKEN_UPDATE_NEEDED 'Wrong number of parts', without decoding the  *)
(* payload, when the content has other than three dot-separated segments. *)
C3_AbsentOrMalformed ==
    (pc # "start" /\ args.cmd \in Remote \cup {"auth"}) =>
        /\ ~tokenFile.exists =>
              /\ raised = ""
              /\ auth_result.status = TOKEN_UPDATE_NEEDED
        /\ (tokenFile.readable /\ DotCount(tokenFile.text) # 2) =>
              /\ raised = ""
              /\ auth_result = Result(TOKEN_UPDATE_NEEDED, Msg("Wrong number of parts"))
              /\ \A i \in 1..Len(calls) : calls[i] # "b64decode"

C3_Witness ==
    /\ pc = "authed"
    /\ tokenFile.readable
    /\ DotCount(tokenFile.text) = 3
    /\ auth_result.status = TOKEN_UPDATE_NEEDED

(* C4: on a three-segment token, a failure to decode the payload or to    *)
(* read its exp field makes auth() return ERROR; auth() never raises.     *)
C4_DecodeFailureIsError ==
    second_part.kind \in {"badb64", "notjson", "noexp"} =>
        /\ raised = ""
        /\ auth_result.status = ERROR

(* C5: report, search and set_score send a request only after auth()      *)
(* returned OK, with that result's message as the bearer credential;      *)
(* otherwise they return auth()'s result unchanged and send nothing.      *)
C5_PostOnlyAfterAuthOK ==
    args.cmd \in Remote =>
        /\ \A i \in 1..Len(posts) :
              /\ auth_result.status = OK
              /\ posts[i].bearer = auth_result.message
              /\ posts[i].bearer.token = tokenFile.text
        /\ \A i \in 1..Len(calls) : calls[i] = "post" => (i > 1 /\ calls[1] = "auth")
        /\ (AuthReturned /\ auth_result.status # OK /\ pc # "authed") =>
              /\ HandlerReturned
              /\ result = auth_result
              /\ posts = <<>>

C5_Witness ==
    /\ args.cmd = "search"
    /\ pc = "awaiting"
    /\ Len(posts) = 1
    /\ posts[1].bearer.token = tokenFile.text

(* C6: a response whose status is not 200 yields ERROR with the status    *)
(* code and the body in the message; OK is returned only for a 200.       *)
C6_Non200IsError ==
    args.cmd \in Remote =>
        /\ (response # NoResponse /\ response.status_code # 200) =>
              /\ result.status = ERROR
              /\ result.message.code = response.status_code
              /\ result.message.body = response.text
        /\ (HandlerReturned /\ result.status = OK) => response.status_code = 200

C6_Witness ==
    /\ args.cmd = "score"
    /\ pc = "done"
    /\ response.status_code = 204
    /\ stdout = <<Result(ERROR, HttpMsg(204, response.text))>>

(* C7 as claimed: with the sidecar file absent, browse, report and score  *)
(* each return ERROR 'Could not found mediaId'.                           *)
C7_AbsentSidecarAlwaysNotFound ==
    (HandlerReturned /\ args.cmd \in {"browse", "report", "score"}
        /\ sidecar.state = "absent") => result = NotFoundResult

(* C7, amended: with the sidecar file absent, get_media_id and browse     *)
(* return ERROR 'Could not found mediaId'; score returns it when auth()   *)
(* returned OK, report when auth() returned OK and the episode could be   *)
(* determined; otherwise they return the result of the earlier check.     *)
C7_AbsentSidecar ==
    (HandlerReturned /\ sidecar.state = "absent") =>
        /\ args.cmd = "browse" => result = NotFoundResult /\ tabs = <<>>
        /\ args.cmd = "score" =>
              result = IF auth_result.status = OK THEN NotFoundResult ELSE auth_result
        /\ args.cmd = "report" =>
              result = IF auth_result.status # OK THEN auth_result
                       ELSE IF EpisodeKnown THEN NotFoundResult
                       ELSE NoEpisodeResult
        /\ args.cmd \in {"browse", "score", "report"} => posts = <<>>

C7_Witness ==
    /\ pc = "done"
    /\ args.cmd = "report"
    /\ sidecar.state = "absent"
    /\ auth_result.status = OK
    /\ stdout = <<NotFoundResult>>

(* C8 as claimed: for a filename with no episode field from the parser    *)
(* and no run of two digits in its base name, report returns ERROR        *)
(* 'Could not determine episode'.                                         *)
C8_NoEpisodeAlwaysError ==
    (HandlerReturned /\ args.cmd = "report" /\ ~EpisodeKnown) => result = NoEpisodeResult

(* C8, amended: for such a filename, report returns ERROR 'Could not      *)
(* determine episode' when auth() returned OK, and auth()'s result        *)
(* otherwise; it reads no sidecar file and sends no request.              *)
C8_NoEpisode ==
    (pc # "start" /\ pc # "authed" /\ args.cmd = "report" /\ ~EpisodeKnown
        /\ AuthReturned) =>
        /\ HandlerReturned
        /\ result = IF auth_result.status = OK THEN NoEpisodeResult ELSE auth_result
        /\ posts = <<>>
        /\ \A i \in 1..Len(calls) : calls[i] # "get_media_id"

C8_Witness ==
    /\ pc = "done"
    /\ args.cmd = "report"
    /\ args.guess.kind = "none"
    /\ Len(args.filename) = 3
    /\ \E i \in 1..3 : args.filename[i] \in Digits
    /\ stdout = <<NoEpisodeResult>>

(* C9: the OAuth authorize URL is opened exactly when the verb is auth    *)
(* and its result is TOKEN_UPDATE_NEEDED; no other verb opens it, and the *)
(* result written is the one the handler returned.                        *)
C9_OAuthTabOnlyForAuth ==
    LET opened == {i \in 1..Len(tabs) : tabs[i] = OAuthURL}
    IN  /\ Cardinality(opened) <= 1
        /\ opened # {} => args.cmd = "auth"
        /\ pc \in {"dump", "done"} =>
              /\ opened # {} <=> (args.cmd = "auth" /\ result.status = TOKEN_UPDATE_NEEDED)
              /\ args.cmd \in Remote \cup {"auth"} /\ auth_result.status # OK
                    => result = auth_result
        /\ pc = "done" => stdout = <<result>>

C9_Witness ==
    /\ pc = "done"
    /\ args.cmd = "auth"
    /\ stdout = <<Result(TOKEN_UPDATE_NEEDED, Msg("Wrong number of parts"))>>
    /\ tabs = <<OAuthURL>>

(* C10: report checks auth, then the episode, then the media id, and      *)
(* returns the result of the first check that fails; it sends at most one *)
(* request, and none when a local check fails.                            *)
C10_ReportOrder ==
    args.cmd = "report" =>
        LET order == <<"auth", "guessit", "get_media_id", "post">>
            made == SelectSeq(calls, LAMBDA x : x # "b64decode")
            sidecarFails == sidecar.state \in {"absent", "nokey"}
        IN  /\ Len(made) <= Len(order)
            /\ made = SubSeq(order, 1, Len(made))
            /\ Len(posts) <= 1
            /\ posts # <<>> =>
                  auth_result.status = OK /\ EpisodeKnown /\ sidecar.state = "ok"
            /\ (HandlerReturned /\ response = NoResponse) =>
                  /\ posts = <<>>
                  /\ result = IF auth_result.status # OK THEN auth_result
                              ELSE IF ~EpisodeKnown THEN NoEpisodeResult
                              ELSE IF sidecar.state = "absent" THEN NotFoundResult
                              ELSE Result(ERROR, Msg("Media file does not have media_id"))
                  /\ auth_result.status # OK \/ ~EpisodeKnown \/ sidecarFails

C10_Witness ==
    /\ pc = "done"
    /\ args.cmd = "report"
    /\ auth_result.status = OK
    /\ ~EpisodeKnown
    /\ sidecar.state = "absent"
    /\ stdout = <<NoEpisodeResult>>

====
